---- MODULE Spec2Model ----
(***************************************************************************)
(* ChatZBible: retrieval-augmented question answering over the King James  *)
(* Bible.  The model covers the corpus loader (data/bible_seeder.py), the  *)
(* document builder (utils/document_processor.py), the RAG engine          *)
(* (core/rag_engine.py) and the part of the Streamlit session that owns    *)
(* and resets the engine (app.py).                                         *)
(*                                                                         *)
(* The specifications share the variables:                                 *)
(*   SpecData      the corpus file is drawn from a bounded set of JSON     *)
(*                 token streams; the actions run load_kjv_data,           *)
(*                 load_bible_data and create_documents_from_bible_data.   *)
(*   SpecChunk     the text splitter of the engine on one document.        *)
(*   SpecRetrieve  questions asked of an engine that loaded a given index. *)
(*   Spec          the engine and the persisted index: create_vectorstore, *)
(*                 load_existing_vectorstore, ask_question,                *)
(*                 ask_question_stream, safe_cleanup_system.               *)
(*   SpecApp       the pages of the app over the persisted index.          *)
(*   SpecChat      the chat page in two sessions: the conversation list.   *)
(*   SpecDownload  the setup script that downloads the corpus.             *)
(*   SpecCleanup   safe_cleanup_system, attempt by attempt.                *)
(***************************************************************************)
EXTENDS Integers, Sequences, FiniteSets, TLC

VARIABLES
    kjvFile,      \* data/KJV.json: whether it exists, its tokens, whether it is cut short
    pcData,       \* position of the data pipeline: start / loaded / built / failed
    dataError,    \* the exception load_kjv_data raised, "none" if it returned
    verses,       \* the list returned by load_kjv_data
    documents,    \* the list returned by create_documents_from_bible_data
    chroma_db,    \* the directory at CHROMA_DB_PATH and the fragments stored in it
    engine,       \* the BiblicalRAGEngine object, NoEngine before construction
    holder,       \* who holds the engine: none / script / session / detached
    session,      \* st.session_state.rag_engine: absent / None / engine
    lastCall,     \* the last call of an engine method and how it ended
    gen,          \* the generator object returned by ask_question_stream
    resetPending, \* the index was deleted by a reset and not rebuilt since
    loader,       \* the loader that was run on the file: none / load_kjv_data / load_bible_data
    chunking,     \* a run of the text splitter: its configuration, its document, its fragments
    ui,           \* the page the app shows and the button that led to it
    chat,         \* per browser session: the conversation list and the pending starter question
    download,     \* the last run of download_kjv_bible and how it ended
    cleanup       \* the last run of safe_cleanup_system, attempt by attempt

dataVars == <<kjvFile, pcData, dataError, verses, documents, loader>>

chunkVars == <<chunking>>

engineVars == <<chroma_db, engine, holder, session, lastCall, gen, resetPending, ui>>

otherVars == <<chat, download, cleanup>>

vars == <<kjvFile, pcData, dataError, verses, documents, loader, chunking,
          chroma_db, engine, holder, session, lastCall, gen, resetPending, ui,
          chat, download, cleanup>>

(***************************************************************************)
(* Bounds of the model.                                                    *)
(***************************************************************************)
MaxTokens == 6       \* longest corpus file, in book/chapter/verse tokens

(***************************************************************************)
(* The corpus file.  A file is a stream of tokens in document order: a     *)
(* book token opens a book, a chapter token opens a chapter of the current *)
(* book, a verse token adds a verse to the current chapter.                *)
(***************************************************************************)
BookNames == {"Malachi", "Matthew", "Psalm"}

VerseNumbers == {1, 2}

\* A text is a sequence of pieces: every whitespace character and every full
\* stop is a piece of its own, a run of other characters (a word) is one
\* piece.  The string it stands for is the concatenation of its pieces.
VerseText(n) ==
    IF n = 1 THEN <<"In", " ", "the", " ", "beginning">>
    ELSE <<"And", " ", "God", " ", "said">>

Tokens ==
    [t : {"book"}, name : BookNames]
        \cup {[t |-> "chapter"]}
        \cup [t : {"verse"}, verse : VerseNumbers]

TokenStreams == UNION {[1..n -> Tokens] : n \in 0..MaxTokens}

\* A stream is the serialisation of a books -> chapters -> verses structure
\* iff every chapter is inside a book and every verse inside a chapter.
RECURSIVE WellFormedFrom(_, _, _)
WellFormedFrom(toks, inBook, inChapter) ==
    IF toks = <<>> THEN TRUE
    ELSE LET tk == Head(toks) IN
         CASE tk.t = "book"    -> WellFormedFrom(Tail(toks), TRUE, FALSE)
           [] tk.t = "chapter" -> inBook /\ WellFormedFrom(Tail(toks), TRUE, TRUE)
           [] tk.t = "verse"   -> inChapter /\ WellFormedFrom(Tail(toks), TRUE, TRUE)

WellFormed(toks) == WellFormedFrom(toks, FALSE, FALSE)

\* json.load: the nested structure {books: [{name, chapters: [{chapter,
\* verses: [{verse, text}]}]}]} the stream serialises.  Chapters are numbered
\* by their position in the book, as in the published file.
RECURSIVE ParseInto(_, _)
ParseInto(books, toks) ==
    IF toks = <<>> THEN books
    ELSE LET tk == Head(toks)
             nb == Len(books)
         IN  CASE tk.t = "book" ->
                    ParseInto(Append(books, [name |-> tk.name, chapters |-> <<>>]),
                              Tail(toks))
               [] tk.t = "chapter" ->
                    LET b  == books[nb]
                        ch == [chapter |-> Len(b.chapters) + 1, verses |-> <<>>]
                    IN  ParseInto([books EXCEPT ![nb].chapters = Append(@, ch)],
                                  Tail(toks))
               [] tk.t = "verse" ->
                    LET b  == books[nb]
                        nc == Len(b.chapters)
                        v  == [verse |-> tk.verse, text |-> VerseText(tk.verse)]
                    IN  ParseInto([books EXCEPT ![nb].chapters[nc].verses = Append(@, v)],
                                  Tail(toks))

JsonLoad(toks) == [translation |-> "KJV", books |-> ParseInto(<<>>, toks)]

MissingFile == [exists |-> FALSE, truncated |-> FALSE, tokens |-> <<>>]

File(toks) == [exists |-> TRUE, truncated |-> FALSE, tokens |-> toks]

\* A file whose text stops before the document is closed.
TruncatedFile(toks) == [exists |-> TRUE, truncated |-> TRUE, tokens |-> toks]

(***************************************************************************)
(* BibleDataSeeder.load_kjv_data: three nested loops appending one verse   *)
(* dictionary per verse.                                                   *)
(***************************************************************************)
VerseDict(book_name, chapter_num, verse) ==
    [book |-> book_name, chapter |-> chapter_num, verse |-> verse.verse,
     text |-> verse.text, translation |-> "KJV"]

FlattenChapterDropsLast(book_name, chapter) ==
    [i \in 1..(IF Len(chapter.verses) > 1 THEN Len(chapter.verses) - 1
               ELSE Len(chapter.verses)) |->
        VerseDict(book_name, chapter.chapter, chapter.verses[i])]

FlattenChapter(book_name, chapter) ==
    [i \in 1..Len(chapter.verses) |->
        VerseDict(book_name, chapter.chapter, chapter.verses[i])]

RECURSIVE FlattenChapters(_, _)
FlattenChapters(book_name, chapters) ==
    IF chapters = <<>> THEN <<>>
    ELSE FlattenChapter(book_name, Head(chapters))
            \o FlattenChapters(book_name, Tail(chapters))

RECURSIVE FlattenBooks(_)
FlattenBooks(books) ==
    IF books = <<>> THEN <<>>
    ELSE FlattenChapters(Head(books).name, Head(books).chapters)
            \o FlattenBooks(Tail(books))

\* load_kjv_data: FileNotFoundError when the file is missing, the decoder's
\* error when json.load fails, else the flat list.
load_kjv_data(file) ==
    IF ~file.exists THEN [raised |-> "FileNotFoundError", verses |-> <<>>]
    ELSE IF file.truncated THEN [raised |-> "JSONDecodeError", verses |-> <<>>]
    ELSE [raised |-> "none", verses |-> FlattenBooks(JsonLoad(file.tokens).books)]

\* create_sample_bible_data: the one-verse corpus used as fallback.
create_sample_bible_data ==
    [translation |-> "KJV",
     books |-> <<[name |-> "Genesis",
                  chapters |-> <<[chapter |-> 1,
                                  verses |-> <<[verse |-> 1,
                                                text |-> <<"In", " ", "the", " ",
                                                           "beginning", " ", "God",
                                                           " ", "created", " ",
                                                           "the", " ", "heaven",
                                                           " ", "and", " ", "the",
                                                           " ", "earth", ".">>]>>]>>]>>]

LoadBibleDataCatchesAll(file) ==
    LET r == load_kjv_data(file)
    IN  IF r.raised # "none"
        THEN [raised |-> "none",
              verses |-> FlattenBooks(create_sample_bible_data.books)]
        ELSE r

\* load_bible_data: load_kjv_data, with the flattened sample corpus in place
\* of a file that is not there; any other exception propagates.
load_bible_data(file) ==
    LET r == load_kjv_data(file)
    IN  IF r.raised = "FileNotFoundError"
        THEN [raised |-> "none",
              verses |-> FlattenBooks(create_sample_bible_data.books)]
        ELSE r

(***************************************************************************)
(* DocumentProcessor.                                                      *)
(***************************************************************************)
old_testament_books ==
    {"Genesis", "Exodus", "Leviticus", "Numbers", "Deuteronomy",
     "Joshua", "Judges", "Ruth", "1 Samuel", "2 Samuel",
     "1 Kings", "2 Kings", "1 Chronicles", "2 Chronicles",
     "Ezra", "Nehemiah", "Esther", "Job", "Psalms", "Proverbs",
     "Ecclesiastes", "Song of Solomon", "Isaiah", "Jeremiah",
     "Lamentations", "Ezekiel", "Daniel", "Hosea", "Joel",
     "Amos", "Obadiah", "Jonah", "Micah", "Nahum", "Habakkuk",
     "Zephaniah", "Haggai", "Zechariah", "Malachi"}

\* The dictionary literal of _get_book_number: name -> number.
book_numbers ==
    "Genesis" :> 1 @@ "Exodus" :> 2 @@ "Leviticus" :> 3
        @@ "Numbers" :> 4 @@ "Deuteronomy" :> 5 @@ "Joshua" :> 6
        @@ "Judges" :> 7 @@ "Ruth" :> 8 @@ "1 Samuel" :> 9
        @@ "2 Samuel" :> 10 @@ "1 Kings" :> 11 @@ "2 Kings" :> 12
        @@ "1 Chronicles" :> 13 @@ "2 Chronicles" :> 14 @@ "Ezra" :> 15
        @@ "Nehemiah" :> 16 @@ "Esther" :> 17 @@ "Job" :> 18
        @@ "Psalms" :> 19 @@ "Proverbs" :> 20 @@ "Ecclesiastes" :> 21
        @@ "Song of Solomon" :> 22 @@ "Isaiah" :> 23 @@ "Jeremiah" :> 24
        @@ "Lamentations" :> 25 @@ "Ezekiel" :> 26 @@ "Daniel" :> 27
        @@ "Hosea" :> 28 @@ "Joel" :> 29 @@ "Amos" :> 30
        @@ "Obadiah" :> 31 @@ "Jonah" :> 32 @@ "Micah" :> 33
        @@ "Nahum" :> 34 @@ "Habakkuk" :> 35 @@ "Zephaniah" :> 36
        @@ "Haggai" :> 37 @@ "Zechariah" :> 38 @@ "Malachi" :> 39
        @@ "Matthew" :> 40 @@ "Mark" :> 41 @@ "Luke" :> 42
        @@ "John" :> 43 @@ "Acts" :> 44 @@ "Romans" :> 45
        @@ "1 Corinthians" :> 46 @@ "2 Corinthians" :> 47 @@ "Galatians" :> 48
        @@ "Ephesians" :> 49 @@ "Philippians" :> 50 @@ "Colossians" :> 51
        @@ "1 Thessalonians" :> 52 @@ "2 Thessalonians" :> 53 @@ "1 Timothy" :> 54
        @@ "2 Timothy" :> 55 @@ "Titus" :> 56 @@ "Philemon" :> 57
        @@ "Hebrews" :> 58 @@ "James" :> 59 @@ "1 Peter" :> 60
        @@ "2 Peter" :> 61 @@ "1 John" :> 62 @@ "2 John" :> 63
        @@ "3 John" :> 64 @@ "Jude" :> 65 @@ "Revelation" :> 66

TestamentMalachiNew(book) ==
    IF book \in (old_testament_books \ {"Malachi"}) THEN "Old" ELSE "New"

_get_testament(book) ==
    IF book \in old_testament_books THEN "Old" ELSE "New"

BookNumberUnknownLast(book) ==
    IF book \in DOMAIN book_numbers THEN book_numbers[book] ELSE 66

_get_book_number(book) ==
    IF book \in DOMAIN book_numbers THEN book_numbers[book] ELSE 0

Document(verse) ==
    [page_content |-> verse.text,
     metadata |->
        [book        |-> verse.book,
         chapter     |-> verse.chapter,
         verse       |-> verse.verse,
         reference   |-> verse.book \o " " \o ToString(verse.chapter)
                             \o ":" \o ToString(verse.verse),
         translation |-> verse.translation,
         testament   |-> _get_testament(verse.book),
         book_number |-> _get_book_number(verse.book),
         chunk_type  |-> "verse"]]

\* The loop builds one document per verse; documents.extend(documents) then
\* appends the list to itself.
create_documents_from_bible_data(bible_data) ==
    LET built == [i \in 1..Len(bible_data) |-> Document(bible_data[i])]
    IN  built \o built

(***************************************************************************)
(* Configuration (config/settings.py) and the external collaborators.      *)
(***************************************************************************)
CHUNK_SIZE == 1000

CHUNK_OVERLAP == 200

RETRIEVAL_K == 5

MaxStore == 4        \* most fragments the persisted index holds

\* The value of the variable engine while no engine object exists
\* (holder = "none").
NoEngine ==
    [prompt |-> FALSE, vectorstore |-> "None", seen |-> <<>>,
     retriever |-> "None", rag_chain |-> "None"]

AbsentDb == [exists |-> FALSE, frags |-> <<>>]

Questions == {"What does the Bible say about creation?", "love"}

\* A stub of the remote services with a fixed behaviour: the retrieval
\* (embedding the question and querying the index) succeeds or fails, and
\* the model produces its reply in increments, failing after fail_after of
\* them (-1: never).
Stubs ==
    [retrieval_ok : {TRUE}, fail_after : {-1, 0, 1}]
        \cup [retrieval_ok : {FALSE}, fail_after : {-1}]

ErrorPrefix == "Error generating response: "

RetrievalMessage == "retrieval failed"

ModelMessage == "model failed"

RECURSIVE Concat(_)
Concat(strs) == IF strs = <<>> THEN "" ELSE Head(strs) \o Concat(Tail(strs))

RECURSIVE Join(_, _)
Join(strs, sep) ==
    IF strs = <<>> THEN ""
    ELSE IF Len(strs) = 1 THEN strs[1]
    ELSE strs[1] \o sep \o Join(Tail(strs), sep)

Min(a, b) == IF a < b THEN a ELSE b

(***************************************************************************)
(* BiblicalRAGEngine.                                                      *)
(***************************************************************************)
\* __init__: every component None; _setup_prompt sets self.prompt only
\* when the pull from the hub succeeds.
BiblicalRAGEngine(hub_ok) ==
    [prompt      |-> hub_ok,
     vectorstore |-> "None",
     seen        |-> <<>>,
     retriever   |-> "None",
     rag_chain   |-> "None"]

is_ready(eng) == eng.rag_chain # "None"

(***************************************************************************)
(* The text splitter of the engine: RecursiveCharacterTextSplitter with    *)
(* separators "\n\n", "\n", ". ", " ", keep_separator and strip_whitespace *)
(* at their defaults (True), add_start_index = True.  It cuts only at      *)
(* separators, so a word is never cut.                                     *)
(***************************************************************************)
Whitespace == {" ", "\n"}

separators == << <<"\n", "\n">>, <<"\n">>, <<".", " ">>, <<" ">> >>

RECURSIVE TextLen(_)
TextLen(text) == IF text = <<>> THEN 0 ELSE Len(Head(text)) + TextLen(Tail(text))

RECURSIVE Flatten(_)
Flatten(texts) == IF texts = <<>> THEN <<>> ELSE Head(texts) \o Flatten(Tail(texts))

Occurs(sep, text) ==
    \E i \in 1..(Len(text) - Len(sep) + 1) : SubSeq(text, i, i + Len(sep) - 1) = sep

\* re.split on the separator, each separator kept at the start of the split
\* that follows it; cur is the split being collected.
RECURSIVE SplitScan(_, _, _)
SplitScan(text, sep, cur) ==
    IF text = <<>> THEN <<cur>>
    ELSE IF Len(text) >= Len(sep) /\ SubSeq(text, 1, Len(sep)) = sep
    THEN <<cur>> \o SplitScan(SubSeq(text, Len(sep) + 1, Len(text)), sep, sep)
    ELSE SplitScan(Tail(text), sep, Append(cur, Head(text)))

_split_text_with_regex(text, sep) ==
    SelectSeq(SplitScan(text, sep, <<>>), LAMBDA s : s # <<>>)

RECURSIVE LStrip(_)
LStrip(text) ==
    IF text # <<>> /\ Head(text) \in Whitespace THEN LStrip(Tail(text)) ELSE text

RECURSIVE RStrip(_)
RStrip(text) ==
    IF text # <<>> /\ text[Len(text)] \in Whitespace
    THEN RStrip(SubSeq(text, 1, Len(text) - 1))
    ELSE text

\* str.strip()
Strip(text) == RStrip(LStrip(text))

JoinDocsKeepsWhitespace(docs) ==
    LET text == Flatten(docs)
    IN  IF text = <<>> THEN <<>> ELSE <<text>>

\* _join_docs with the separator "": the splits joined and stripped; no
\* chunk when nothing is left.
_join_docs(docs) ==
    LET text == Strip(Flatten(docs))
    IN  IF text = <<>> THEN <<>> ELSE <<text>>

\* The while loop of _merge_splits: splits leave the front of current_doc
\* until what stays is no longer than the overlap and the next split fits.
RECURSIVE PopFront(_, _, _, _, _)
PopFront(current_doc, total, len, chunk_size, chunk_overlap) ==
    IF total > chunk_overlap \/ (total + len > chunk_size /\ total > 0)
    THEN PopFront(Tail(current_doc), total - TextLen(Head(current_doc)), len,
                  chunk_size, chunk_overlap)
    ELSE [current_doc |-> current_doc, total |-> total]

RECURSIVE MergeLoop(_, _, _, _, _, _)
MergeLoop(splits, docs, current_doc, total, chunk_size, chunk_overlap) ==
    IF splits = <<>> THEN docs \o _join_docs(current_doc)
    ELSE LET d    == Head(splits)
             len  == TextLen(d)
             over == total + len > chunk_size /\ current_doc # <<>>
             kept == IF over
                     THEN PopFront(current_doc, total, len, chunk_size, chunk_overlap)
                     ELSE [current_doc |-> current_doc, total |-> total]
         IN  MergeLoop(Tail(splits),
                       IF over THEN docs \o _join_docs(current_doc) ELSE docs,
                       Append(kept.current_doc, d), kept.total + len,
                       chunk_size, chunk_overlap)

MergeSplitsOverlapUpToSize(splits, chunk_size, chunk_overlap) ==
    MergeLoop(splits, <<>>, <<>>, 0, chunk_size, chunk_size)

_merge_splits(splits, chunk_size, chunk_overlap) ==
    MergeLoop(splits, <<>>, <<>>, 0, chunk_size, chunk_overlap)

\* _split_text: split at the first separator of the list that occurs in the
\* text (the last one when none occurs); splits shorter than the chunk size
\* are merged, a longer one is split again with the separators that remain,
\* or kept whole when none remains.
RECURSIVE _split_text(_, _, _, _)
RECURSIVE SplitLoop(_, _, _, _, _)
SplitLoop(splits, good_splits, new_separators, chunk_size, chunk_overlap) ==
    LET merged == IF good_splits = <<>> THEN <<>>
                  ELSE _merge_splits(good_splits, chunk_size, chunk_overlap)
    IN  IF splits = <<>> THEN merged
        ELSE LET s == Head(splits)
             IN  IF TextLen(s) < chunk_size
                 THEN SplitLoop(Tail(splits), Append(good_splits, s),
                                new_separators, chunk_size, chunk_overlap)
                 ELSE merged
                      \o (IF new_separators = <<>> THEN <<s>>
                          ELSE _split_text(s, new_separators, chunk_size,
                                           chunk_overlap))
                      \o SplitLoop(Tail(splits), <<>>, new_separators,
                                   chunk_size, chunk_overlap)

_split_text(text, seps, chunk_size, chunk_overlap) ==
    LET found == {i \in 1..Len(seps) : Occurs(seps[i], text)}
        first == IF found = {} THEN Len(seps)
                 ELSE CHOOSE i \in found : \A j \in found : i <= j
        new_separators == IF found = {} THEN <<>>
                          ELSE SubSeq(seps, first + 1, Len(seps))
    IN  SplitLoop(_split_text_with_regex(text, seps[first]), <<>>,
                  new_separators, chunk_size, chunk_overlap)

split_text(text, chunk_size, chunk_overlap) ==
    _split_text(text, separators, chunk_size, chunk_overlap)

\* str.find(chunk, from): the first offset, in characters, not before from
\* at which the chunk occurs in the text; -1 when there is none.
Find(text, chunk, from) ==
    LET at == {TextLen(SubSeq(text, 1, p)) :
                 p \in {q \in 0..(Len(text) - Len(chunk)) :
                          /\ SubSeq(text, q + 1, q + Len(chunk)) = chunk
                          /\ TextLen(SubSeq(text, 1, q)) >= from}}
    IN  IF at = {} THEN -1 ELSE CHOOSE o \in at : \A m \in at : o <= m

\* The loop of create_documents over the chunks of one text: each chunk
\* gets a copy of the metadata of its document, with the key start_index
\* added (add_start_index = True).
RECURSIVE ChunkDocuments(_, _, _, _, _, _)
ChunkDocuments(text, metadata, chunks, index, previous_chunk_len, chunk_overlap) ==
    IF chunks = <<>> THEN <<>>
    ELSE LET chunk  == Head(chunks)
             offset == index + previous_chunk_len - chunk_overlap
             found  == Find(text, chunk, IF offset > 0 THEN offset ELSE 0)
         IN  <<[page_content |-> chunk,
                metadata |-> [start_index |-> found] @@ metadata]>>
             \o ChunkDocuments(text, metadata, Tail(chunks), found,
                               TextLen(chunk), chunk_overlap)

CreateDocumentsBareMetadata(text, metadata, chunk_size, chunk_overlap) ==
    LET chunks == split_text(text, chunk_size, chunk_overlap)
    IN  [i \in 1..Len(chunks) |->
            [page_content |-> chunks[i], metadata |-> [start_index |-> 0]]]

create_documents(text, metadata, chunk_size, chunk_overlap) ==
    ChunkDocuments(text, metadata, split_text(text, chunk_size, chunk_overlap),
                   0, 0, chunk_overlap)

\* text_splitter.split_documents with the given chunk size and overlap.
TextSplitter(docs, chunk_size, chunk_overlap) ==
    Flatten([i \in 1..Len(docs) |->
               create_documents(docs[i].page_content, docs[i].metadata,
                                chunk_size, chunk_overlap)])

\* self.text_splitter.split_documents: the splitter the engine is built with.
split_documents(docs) == TextSplitter(docs, CHUNK_SIZE, CHUNK_OVERLAP)

\* _create_rag_chain: raises when the retriever is missing, and when
\* self.prompt was never set (the attribute does not exist).
_create_rag_chain(eng) ==
    IF eng.retriever = "None" THEN [engine |-> eng, raised |-> "ValueError"]
    ELSE IF ~eng.prompt THEN [engine |-> eng, raised |-> "AttributeError"]
    ELSE [engine |-> [eng EXCEPT !.rag_chain = "set"], raised |-> "none"]

\* Chroma.from_documents keeps, for every fragment, its text as a string
\* and its metadata.
Stored(fragments) ==
    [i \in 1..Len(fragments) |->
        [page_content |-> Concat(fragments[i].page_content),
         metadata     |-> fragments[i].metadata]]

CreateVectorstoreNoGuard(eng, db, docs, emb_ok) ==
    LET all_splits == split_documents(docs)
        db2  == [exists |-> TRUE, frags |-> db.frags \o Stored(all_splits)]
        eng2 == [eng EXCEPT !.vectorstore = "Chroma", !.seen = db2.frags,
                            !.retriever = "set"]
        rc   == _create_rag_chain(eng2)
    IN  IF ~emb_ok
        THEN [engine |-> eng, db |-> [exists |-> TRUE, frags |-> db.frags],
              outcome |-> "ProviderError"]
        ELSE [engine |-> rc.engine, db |-> db2,
              outcome |-> IF rc.raised = "none" THEN "returned" ELSE rc.raised]

\* create_vectorstore.  Chroma.from_documents opens (creating it when
\* missing) the collection at CHROMA_DB_PATH, embeds the fragments and adds
\* them to what the collection already holds; when the embedding call fails
\* the exception propagates and the collection stays as it was opened.
create_vectorstore(eng, db, docs, emb_ok) ==
    IF docs = <<>>
    THEN [engine |-> eng, db |-> db, outcome |-> "ValueError"]
    ELSE LET all_splits == split_documents(docs)
             db2  == [exists |-> TRUE, frags |-> db.frags \o Stored(all_splits)]
             eng2 == [eng EXCEPT !.vectorstore = "Chroma", !.seen = db2.frags,
                                 !.retriever = "set"]
             rc   == _create_rag_chain(eng2)
         IN  IF ~emb_ok
             THEN [engine |-> eng, db |-> [exists |-> TRUE, frags |-> db.frags],
                   outcome |-> "ProviderError"]
             ELSE [engine |-> rc.engine, db |-> db2,
                   outcome |-> IF rc.raised = "none" THEN "returned" ELSE rc.raised]

LoadExistingNoCountCheck(eng, db, open_ok) ==
    IF ~db.exists THEN [engine |-> eng, outcome |-> "returned None"]
    ELSE IF ~open_ok THEN [engine |-> eng, outcome |-> "returned None"]
    ELSE LET eng2 == [eng EXCEPT !.vectorstore = "Chroma", !.seen = db.frags,
                                 !.retriever = "set"]
             rc   == _create_rag_chain(eng2)
         IN  IF rc.raised # "none"
             THEN [engine |-> rc.engine, outcome |-> "returned None"]
             ELSE [engine |-> rc.engine, outcome |-> "returned store"]

\* load_existing_vectorstore.  open_ok: the Chroma constructor succeeds;
\* every exception inside the try block ends in "return None".
load_existing_vectorstore(eng, db, open_ok) ==
    IF ~db.exists THEN [engine |-> eng, outcome |-> "returned None"]
    ELSE IF ~open_ok THEN [engine |-> eng, outcome |-> "returned None"]
    ELSE LET eng2 == [eng EXCEPT !.vectorstore = "Chroma", !.seen = db.frags]
         IN  IF Len(db.frags) = 0
             THEN [engine |-> eng2, outcome |-> "returned None"]
             ELSE LET eng3 == [eng2 EXCEPT !.retriever = "set"]
                      rc   == _create_rag_chain(eng3)
                  IN  IF rc.raised # "none"
                      THEN [engine |-> rc.engine, outcome |-> "returned None"]
                      ELSE [engine |-> rc.engine, outcome |-> "returned store"]

\* What the vector store answers from: the collection on disk, or, once the
\* directory is gone, what the open handle last saw.
Index(eng, db) == IF db.exists THEN db.frags ELSE eng.seen

\* The embedding model, stubbed: how similar the embedding of a fragment is
\* to the embedding of the question.  It depends on the content only.
Similarity(question, fragment) ==
    IF question = "love"
    THEN (IF fragment.page_content = Concat(VerseText(2)) THEN 3 ELSE 1)
    ELSE (IF fragment.page_content = Concat(VerseText(2)) THEN 1 ELSE 2)

\* The fragments of the index from the most similar to the least, fragments
\* of equal similarity in the order the index holds them.
RECURSIVE BySimilarity(_, _, _)
BySimilarity(index, question, scores) ==
    IF scores = {} THEN <<>>
    ELSE LET top == CHOOSE x \in scores : \A y \in scores : y <= x
         IN  SelectSeq(index, LAMBDA f : Similarity(question, f) = top)
                \o BySimilarity(index, question, scores \ {top})

RetrieveInStoreOrder(index, question) ==
    SubSeq(index, 1, Min(RETRIEVAL_K, Len(index)))

\* retriever (search_type "similarity", k = RETRIEVAL_K): the RETRIEVAL_K
\* most similar fragments of the index, all of them when it holds fewer.
Retrieve(index, question) ==
    LET ranked == BySimilarity(index, question,
                               {Similarity(question, index[i]) : i \in 1..Len(index)})
    IN  SubSeq(ranked, 1, Min(RETRIEVAL_K, Len(ranked)))

FormatDocsDistinct(docs) ==
    Join(SelectSeq([i \in 1..Len(docs) |->
                      IF i > 1 /\ docs[i] = docs[i - 1] THEN ""
                      ELSE "[" \o docs[i].metadata.reference \o "] "
                               \o docs[i].page_content],
                   LAMBDA entry : entry # ""),
         "\n\n")

format_docs(docs) ==
    Join([i \in 1..Len(docs) |->
            "[" \o docs[i].metadata.reference \o "] " \o docs[i].page_content],
         "\n\n")

\* The reply of the stubbed model, in the increments it is produced in: it
\* echoes the prompt it was given (context, then question).
ReplyIncrements(context, question) == <<context, " Q: " \o question>>

\* The first stage of the chain, {"context": retriever | format_docs}: the
\* fragments retrieved for the question and the context block made of them.
RetrieveAndFormat(eng, db, question) ==
    LET docs == Retrieve(Index(eng, db), question)
    IN  [retrieved |-> docs, context |-> format_docs(docs)]

\* rag_chain.invoke: the first exception of the chain, or the whole reply.
ChainInvoke(eng, db, question, stub) ==
    LET reply == ReplyIncrements(RetrieveAndFormat(eng, db, question).context,
                                 question)
    IN  IF ~stub.retrieval_ok THEN [raised |-> TRUE, text |-> RetrievalMessage]
        ELSE IF stub.fail_after # -1 THEN [raised |-> TRUE, text |-> ModelMessage]
        ELSE [raised |-> FALSE, text |-> Concat(reply)]

\* rag_chain.stream: the increments the chain yields before it ends, and the
\* exception it ends with, if any.
ChainStream(eng, db, question, stub) ==
    LET reply == ReplyIncrements(RetrieveAndFormat(eng, db, question).context,
                                 question)
    IN  IF ~stub.retrieval_ok
        THEN [chunks |-> <<>>, raised |-> TRUE, text |-> RetrievalMessage]
        ELSE IF stub.fail_after # -1
        THEN [chunks |-> SubSeq(reply, 1, stub.fail_after), raised |-> TRUE,
              text |-> ModelMessage]
        ELSE [chunks |-> reply, raised |-> FALSE, text |-> ""]

AskQuestionReraises(eng, db, question, stub) ==
    IF eng.rag_chain = "None" THEN [outcome |-> "ValueError", text |-> ""]
    ELSE LET r == ChainInvoke(eng, db, question, stub)
         IN  IF r.raised THEN [outcome |-> "ProviderError", text |-> ""]
             ELSE [outcome |-> "returned", text |-> r.text]

\* ask_question: the readiness check is outside the try block.
ask_question(eng, db, question, stub) ==
    IF eng.rag_chain = "None" THEN [outcome |-> "ValueError", text |-> ""]
    ELSE LET r == ChainInvoke(eng, db, question, stub)
         IN  IF r.raised
             THEN [outcome |-> "returned", text |-> ErrorPrefix \o r.text]
             ELSE [outcome |-> "returned", text |-> r.text]

StreamBodyCatchesUninitialized(eng, db, question, stub) ==
    IF eng.rag_chain = "None"
    THEN [outcome |-> "running", reads |-> 0,
          pending |-> <<ErrorPrefix \o "RAG chain not initialized">>]
    ELSE LET r == ChainStream(eng, db, question, stub)
         IN  [outcome |-> "running", reads |-> 1,
              pending |-> IF r.raised THEN Append(r.chunks, ErrorPrefix \o r.text)
                          ELSE r.chunks]

StreamBodyDropsLast(eng, db, question, stub) ==
    IF eng.rag_chain = "None"
    THEN [outcome |-> "ValueError", reads |-> 0, pending |-> <<>>]
    ELSE LET r == ChainStream(eng, db, question, stub)
         IN  [outcome |-> "running", reads |-> 1,
              pending |-> IF r.raised THEN Append(r.chunks, ErrorPrefix \o r.text)
                          ELSE SubSeq(r.chunks, 1, Len(r.chunks) - 1)]

StreamBodyRetriesOnError(eng, db, question, stub) ==
    IF eng.rag_chain = "None"
    THEN [outcome |-> "ValueError", reads |-> 0, pending |-> <<>>]
    ELSE LET r == ChainStream(eng, db, question, stub)
         IN  [outcome |-> "running", reads |-> IF r.raised THEN 2 ELSE 1,
              pending |-> IF r.raised
                          THEN r.chunks \o Append(r.chunks, ErrorPrefix \o r.text)
                          ELSE r.chunks]

\* The body of the generator ask_question_stream, run at the first next():
\* the readiness check, then every increment the generator will yield, in
\* order (the chain's increments, then the error string if the chain raised).
\* reads: how many times the body calls rag_chain.stream.
ask_question_stream(eng, db, question, stub) ==
    IF eng.rag_chain = "None"
    THEN [outcome |-> "ValueError", reads |-> 0, pending |-> <<>>]
    ELSE LET r == ChainStream(eng, db, question, stub)
         IN  [outcome |-> "running", reads |-> 1,
              pending |-> IF r.raised THEN Append(r.chunks, ErrorPrefix \o r.text)
                          ELSE r.chunks]

\* get_stats: "No vector store loaded" without a vector store; otherwise
\* "Ready" when the count of the collection can be read (count_ok), and an
\* error status when reading it raises.
get_stats(eng, db, count_ok) ==
    IF eng.vectorstore = "None" THEN [status |-> "No vector store loaded"]
    ELSE IF count_ok
    THEN [status |-> "Ready", document_count |-> Len(Index(eng, db))]
    ELSE [status |-> "Error: count failed"]

(***************************************************************************)
(* app.py: safe_cleanup_system.                                            *)
(***************************************************************************)
\* How the deletion of the index directory ends: rmtree succeeds within
\* three attempts; three PermissionErrors and the fallback
\* (force_delete_directory) deletes or renames the directory, reports
\* success while the directory is still there, or fails; or another
\* exception is raised.
RmtreeResults ==
    {"deleted", "fallback removed", "fallback reported", "fallback failed",
     "other error"}

\* The attempts of the retry loop of safe_cleanup_system.
RmtreeAttempts == 3

\* What the file system and the shell do during one deletion: the outcome
\* of each successive shutil.rmtree of the index directory, the platform,
\* the shell's rmdir (its return code and whether the directory went: the
\* return code of rmdir /s /q does not tell), whether the directory is
\* still there after robocopy and rmtree(ignore_errors = True), and whether
\* it can be renamed.
Deletions ==
    [rmtree   : [1..(RmtreeAttempts + 1) -> {"removed", "PermissionError", "OSError"}],
     platform : {"Windows", "other"},
     rmdir    : {"0 removed", "0 kept", "nonzero", "raises"},
     mirror   : {"removed", "kept"},
     rename   : {"renamed", "fails"}]

\* The last resort of force_delete_directory: rename the directory.
RenameAway(fs, calls) ==
    IF fs.rename = "renamed"
    THEN [result |-> TRUE, exists |-> FALSE, calls |-> calls, how |-> "fallback removed"]
    ELSE [result |-> FALSE, exists |-> TRUE, calls |-> calls, how |-> "fallback failed"]

\* force_delete_directory after calls rmtree calls.  On Windows a return
\* code 0 of rmdir returns True without looking at the directory; otherwise
\* robocopy, one more rmtree (errors ignored) and "not path.exists()".
\* Elsewhere one more rmtree.  An exception leads to the rename.
force_delete_directory(fs, calls) ==
    IF fs.platform = "Windows"
    THEN CASE fs.rmdir = "raises" -> RenameAway(fs, calls)
           [] fs.rmdir = "0 removed" ->
                [result |-> TRUE, exists |-> FALSE, calls |-> calls,
                 how |-> "fallback removed"]
           [] fs.rmdir = "0 kept" ->
                [result |-> TRUE, exists |-> TRUE, calls |-> calls,
                 how |-> "fallback reported"]
           [] fs.rmdir = "nonzero" ->
                IF fs.mirror = "removed"
                THEN [result |-> TRUE, exists |-> FALSE, calls |-> calls + 1,
                      how |-> "fallback removed"]
                ELSE [result |-> FALSE, exists |-> TRUE, calls |-> calls + 1,
                      how |-> "fallback failed"]
    ELSE IF fs.rmtree[calls + 1] = "removed"
         THEN [result |-> TRUE, exists |-> FALSE, calls |-> calls + 1,
               how |-> "fallback removed"]
         ELSE RenameAway(fs, calls + 1)

\* The loop "for attempt in range(3)" from its attempt-th pass (0-based):
\* True when rmtree returns; a PermissionError leads to the next pass, on
\* the last pass to force_delete_directory; any other exception reaches the
\* outer handler, which returns False.
RECURSIVE RmtreeLoop(_, _)
RmtreeLoop(fs, attempt) ==
    CASE fs.rmtree[attempt + 1] = "removed" ->
            [result |-> TRUE, exists |-> FALSE, calls |-> attempt + 1,
             how |-> "deleted"]
      [] fs.rmtree[attempt + 1] = "OSError" ->
            [result |-> FALSE, exists |-> TRUE, calls |-> attempt + 1,
             how |-> "other error"]
      [] fs.rmtree[attempt + 1] = "PermissionError" ->
            IF attempt < RmtreeAttempts - 1 THEN RmtreeLoop(fs, attempt + 1)
            ELSE force_delete_directory(fs, attempt + 1)

\* Step 4 of safe_cleanup_system: nothing to delete when the directory is
\* not there.
DeleteIndexDirectory(db, fs) ==
    IF ~db.exists
    THEN [result |-> TRUE, exists |-> FALSE, calls |-> 0, how |-> "deleted"]
    ELSE RmtreeLoop(fs, 0)

CleanupRemovesOldest(eng, sess, db, rm) ==
    LET eng2 == IF sess = "engine"
                THEN [eng EXCEPT !.vectorstore = "None", !.rag_chain = "None"]
                ELSE eng
        gone == ~db.exists \/ rm \in {"deleted", "fallback removed"}
    IN  [engine  |-> eng2,
         session |-> "absent",
         db      |-> IF gone /\ db.frags # <<>>
                     THEN [exists |-> TRUE, frags |-> Tail(db.frags)]
                     ELSE db,
         result  |-> gone \/ rm = "fallback reported"]

CleanupKeepsChain(eng, sess, db, rm) ==
    LET eng2 == IF sess = "engine" THEN [eng EXCEPT !.vectorstore = "None"]
                ELSE eng
        gone == ~db.exists \/ rm \in {"deleted", "fallback removed"}
    IN  [engine  |-> eng2,
         session |-> "absent",
         db      |-> IF gone THEN AbsentDb ELSE db,
         result  |-> gone \/ rm = "fallback reported"]

safe_cleanup_system(eng, sess, db, rm) ==
    LET eng2 == IF sess = "engine"
                THEN [eng EXCEPT !.vectorstore = "None", !.rag_chain = "None"]
                ELSE eng
        gone == ~db.exists \/ rm \in {"deleted", "fallback removed"}
    IN  [engine  |-> eng2,
         session |-> "absent",
         db      |-> IF gone THEN AbsentDb ELSE db,
         result  |-> gone \/ rm = "fallback reported"]

(***************************************************************************)
(* data/download_and_setup.py: download_kjv_bible.                         *)
(***************************************************************************)
\* How the transfer of a body of n tokens goes: the request fails before
\* anything is written; iter_content raises a RequestException, or the write
\* raises an OSError, after some tokens reached the file; the body ends
\* early without an exception; or the whole body arrives.
Transfers(n) ==
    {[kind |-> "request failed", written |-> 0],
     [kind |-> "complete", written |-> n]}
        \cup [kind : {"interrupted", "write failed", "short body"},
              written : 0..(IF n = 0 THEN 0 ELSE n - 1)]

\* download_kjv_bible.  open(kjv_path, 'wb') creates the file, the loop
\* writes what arrives; the file is then validated with json.load.  Only
\* the JSONDecodeError handler unlinks the file; the handlers of
\* RequestException and Exception return False and leave it.
download_kjv_bible(file, body, net) ==
    CASE net.kind = "request failed" ->
            [file |-> file, result |-> FALSE, cause |-> "RequestException"]
      [] net.kind = "interrupted" ->
            [file |-> TruncatedFile(SubSeq(body, 1, net.written)),
             result |-> FALSE, cause |-> "RequestException"]
      [] net.kind = "write failed" ->
            [file |-> TruncatedFile(SubSeq(body, 1, net.written)),
             result |-> FALSE, cause |-> "Exception"]
      [] net.kind = "short body" ->
            [file |-> MissingFile, result |-> FALSE, cause |-> "JSONDecodeError"]
      [] net.kind = "complete" ->
            [file |-> File(body), result |-> TRUE, cause |-> "none"]

\* setup_bible_data_with_download up to the documents: the corpus is
\* downloaded only when no file is at the path; a failed download ends the
\* setup; then get_bible_stats and load_bible_data read the file.
setup_bible_data_with_download(file, body, net) ==
    LET d == IF ~file.exists THEN download_kjv_bible(file, body, net)
             ELSE [file |-> file, result |-> TRUE, cause |-> "not called"]
        r == load_bible_data(d.file)
    IN  IF ~d.result
        THEN [file |-> d.file, called |-> TRUE, download |-> d,
              raised |-> "Exception", verses |-> <<>>, documents |-> <<>>]
        ELSE [file |-> d.file, called |-> ~file.exists, download |-> d,
              raised |-> r.raised, verses |-> r.verses,
              documents |-> IF r.raised = "none"
                            THEN create_documents_from_bible_data(r.verses)
                            ELSE <<>>]

(***************************************************************************)
(* app.py: the chat page.  A session is the part of st.session_state the   *)
(* page uses: messages, generate_response; run is the handler that ran     *)
(* last, question / input / stub / response describe its call of the       *)
(* engine.                                                                 *)
(***************************************************************************)
\* Two of the starter questions of show_starter_questions.
example_questions ==
    <<"What does the Bible say about creation?", "How does the Bible describe love?">>

\* response_generator: the increments of ask_question_stream; an exception
\* raised by the generator becomes the one increment "Error: <message>".
response_generator(eng, db, question, stub) ==
    LET r == ask_question_stream(eng, db, question, stub)
    IN  IF r.outcome = "ValueError"
        THEN <<"Error: RAG chain not initialized. Create or load vector store first.">>
        ELSE r.pending

\* A starter question is clicked: the question joins the list and is left
\* in generate_response for the rerun.
StarterQuestionClick(st, question) ==
    [st EXCEPT !.messages = Append(@, [role |-> "user", content |-> question]),
               !.generate_response = question,
               !.question = question,
               !.run = "starter question"]

GenerateResponseReplacesQuestion(st, eng, db, stub) ==
    LET question == st.generate_response
        response == Concat(response_generator(eng, db, question, stub))
    IN  [st EXCEPT !.generate_response = "absent",
                   !.messages = Append(SubSeq(@, 1, Len(@) - 1),
                                       [role |-> "assistant", content |-> response]),
                   !.input = question, !.stub = stub, !.response = response,
                   !.run = "generated answer"]

\* The run with generate_response set: the flag is taken, the answer to its
\* question is streamed (st.write_stream returns the concatenation of the
\* increments) and joins the list.
GenerateResponse(st, eng, db, stub) ==
    LET question == st.generate_response
        response == Concat(response_generator(eng, db, question, stub))
    IN  [st EXCEPT !.generate_response = "absent",
                   !.messages = Append(@, [role |-> "assistant", content |-> response]),
                   !.input = question, !.stub = stub, !.response = response,
                   !.run = "generated answer"]

ChatInputSendsHistory(st, prompt, eng, db, stub) ==
    IF st.generate_response # "absent" THEN GenerateResponse(st, eng, db, stub)
    ELSE LET sent     == Concat([i \in 1..Len(st.messages) |-> st.messages[i].content])
                            \o prompt
             response == Concat(response_generator(eng, db, sent, stub))
         IN  [st EXCEPT !.messages = @ \o <<[role |-> "user", content |-> prompt],
                                            [role |-> "assistant", content |-> response]>>,
                        !.question = prompt,
                        !.input = sent, !.stub = stub, !.response = response,
                        !.run = "typed question"]

\* The run in which st.chat_input returns a prompt.  A pending
\* generate_response is served first and its st.rerun() ends the run;
\* otherwise the prompt joins the list, its answer is streamed and joins the
\* list.
ChatInput(st, prompt, eng, db, stub) ==
    IF st.generate_response # "absent" THEN GenerateResponse(st, eng, db, stub)
    ELSE LET response == Concat(response_generator(eng, db, prompt, stub))
         IN  [st EXCEPT !.messages = @ \o <<[role |-> "user", content |-> prompt],
                                            [role |-> "assistant", content |-> response]>>,
                        !.question = prompt,
                        !.input = prompt, !.stub = stub, !.response = response,
                        !.run = "typed question"]

\* "Clear Conversation": the list is emptied and a pending generate_response
\* is deleted.
ClearConversation(st) ==
    [st EXCEPT !.messages = <<>>, !.generate_response = "absent",
               !.run = "clear conversation"]

(***************************************************************************)
(* Records of calls, for stating what a call did.                          *)
(***************************************************************************)
NoStub == [retrieval_ok |-> TRUE, fail_after |-> -1]

NoCall ==
    [op |-> "none", outcome |-> "none", text |-> "", question |-> "",
     stub |-> NoStub, index |-> <<>>, retrieved |-> <<>>, context |-> "",
     pre_engine |-> NoEngine, pre_db |-> AbsentDb]

Call(op, outcome, pre_engine, pre_db) ==
    [NoCall EXCEPT !.op = op, !.outcome = outcome,
                   !.pre_engine = pre_engine, !.pre_db = pre_db]

\* No run of the splitter.
NoChunking ==
    [pc |-> "none", chunk_size |-> CHUNK_SIZE, chunk_overlap |-> CHUNK_OVERLAP,
     doc |-> [page_content |-> <<>>, metadata |-> <<>>],
     out |-> <<>>]

\* The app before its script has run: no page shown, no button clicked.
NoUi == [page |-> "none", clicked |-> "none"]

\* What a run of the app finds at CHROMA_DB_PATH.
IndexState(db) ==
    IF ~db.exists THEN "missing"
    ELSE IF db.frags = <<>> THEN "empty" ELSE "usable"

\* check_if_setup_needed: setup is needed exactly when the index directory
\* does not exist.
check_if_setup_needed(db) == ~db.exists

\* main(): the page a run of the app script shows, and the button whose
\* click started the run.
main(db, clicked) ==
    [page    |-> IF check_if_setup_needed(db) THEN "setup" ELSE "chat",
     clicked |-> clicked]

NoGen ==
    [state |-> "none", question |-> "", stub |-> NoStub, index |-> <<>>,
     ready_at_start |-> FALSE, after_reset |-> FALSE, reads |-> 0,
     pending |-> <<>>, yielded |-> <<>>]

(***************************************************************************)
(* SpecData: the data pipeline on a bounded corpus file.                   *)
(***************************************************************************)
\* No chat session, no download and no cleanup has run.
Sessions == {1, 2}

NoSession ==
    [messages |-> <<>>, generate_response |-> "absent", run |-> "none",
     question |-> "", input |-> "", stub |-> NoStub, response |-> ""]

NoChat == [s \in Sessions |-> NoSession]

NoDownload == [result |-> "none", cause |-> "none"]

NoCleanup == [result |-> "none", attempts |-> 0, how |-> "none", platform |-> "none"]

EngineIdle ==
    /\ chat = NoChat
    /\ download = NoDownload
    /\ cleanup = NoCleanup
    /\ chroma_db = AbsentDb
    /\ engine = NoEngine
    /\ holder = "none"
    /\ session = "absent"
    /\ lastCall = NoCall
    /\ gen = NoGen
    /\ resetPending = FALSE
    /\ ui = NoUi

SampleFiles ==
    { <<>>,
      <<[t |-> "book", name |-> "Matthew"], [t |-> "chapter"],
        [t |-> "verse", verse |-> 1]>>,
      <<[t |-> "book", name |-> "Malachi"], [t |-> "chapter"],
        [t |-> "verse", verse |-> 2], [t |-> "verse", verse |-> 1]>> }

KjvFiles ==
    {File(toks) : toks \in {t \in TokenStreams : WellFormed(t)}}
        \cup {TruncatedFile(toks) : toks \in SampleFiles}
        \cup {MissingFile}

InitData ==
    /\ kjvFile \in KjvFiles
    /\ pcData = "start"
    /\ dataError = "none"
    /\ verses = <<>>
    /\ documents = <<>>
    /\ loader = "none"
    /\ chunking = NoChunking
    /\ EngineIdle

\* load_kjv_data on the file.
LoadKjvData ==
    /\ pcData = "start"
    /\ LET r == load_kjv_data(kjvFile)
       IN  /\ verses' = r.verses
           /\ dataError' = r.raised
           /\ pcData' = IF r.raised = "none" THEN "loaded" ELSE "failed"
    /\ loader' = "load_kjv_data"
    /\ UNCHANGED <<kjvFile, documents>>
    /\ UNCHANGED engineVars
    /\ UNCHANGED chunkVars
    /\ UNCHANGED otherVars

\* load_bible_data on the file.
LoadBibleData ==
    /\ pcData = "start"
    /\ LET r == load_bible_data(kjvFile)
       IN  /\ verses' = r.verses
           /\ dataError' = r.raised
           /\ pcData' = IF r.raised = "none" THEN "loaded" ELSE "failed"
    /\ loader' = "load_bible_data"
    /\ UNCHANGED <<kjvFile, documents>>
    /\ UNCHANGED engineVars
    /\ UNCHANGED chunkVars
    /\ UNCHANGED otherVars

\* create_documents_from_bible_data on the loaded verses.
CreateDocuments ==
    /\ pcData = "loaded"
    /\ documents' = create_documents_from_bible_data(verses)
    /\ pcData' = "built"
    /\ UNCHANGED <<kjvFile, dataError, verses, loader>>
    /\ UNCHANGED engineVars
    /\ UNCHANGED chunkVars
    /\ UNCHANGED otherVars

NextData == LoadKjvData \/ LoadBibleData \/ CreateDocuments

SpecData == InitData /\ [][NextData]_vars

(***************************************************************************)
(* Spec: the engine, the persisted index and the session that owns the     *)
(* engine.  The documents to index are those built from a corpus file.     *)
(***************************************************************************)
\* The corpus files the index is built from: an empty corpus, a corpus of
\* two verses, and no file (load_bible_data then gives the sample corpus).
BuildFiles ==
    {File(toks) : toks \in {t \in SampleFiles : Len(t) # 3}} \cup {MissingFile}

Init ==
    /\ kjvFile \in BuildFiles
    /\ pcData = "built"
    /\ dataError = "none"
    /\ verses = load_bible_data(kjvFile).verses
    /\ documents = create_documents_from_bible_data(verses)
    /\ loader = "load_bible_data"
    /\ chunking = NoChunking
    /\ EngineIdle

\* A script (main.py, data/setup_bible_data.py, data/download_and_setup.py)
\* constructs an engine.
Construct ==
    /\ holder \in {"none", "detached"}
    /\ \E hub_ok \in BOOLEAN : engine' = BiblicalRAGEngine(hub_ok)
    /\ holder' = "script"
    /\ lastCall' = NoCall
    /\ gen' = NoGen
    /\ UNCHANGED <<chroma_db, session, resetPending, ui>>
    /\ UNCHANGED dataVars
    /\ UNCHANGED chunkVars
    /\ UNCHANGED otherVars

\* The script ends and its engine with it.
ScriptExit ==
    /\ holder = "script"
    /\ engine' = NoEngine
    /\ holder' = "none"
    /\ lastCall' = NoCall
    /\ gen' = NoGen
    /\ UNCHANGED <<chroma_db, session, resetPending, ui>>
    /\ UNCHANGED dataVars
    /\ UNCHANGED chunkVars
    /\ UNCHANGED otherVars

\* The setup scripts remove an existing index directory before they build.
RemoveExistingStore ==
    /\ holder = "script"
    /\ engine.vectorstore = "None"
    /\ chroma_db.exists
    /\ chroma_db' = AbsentDb
    /\ lastCall' = Call("rmtree", "returned", NoEngine, chroma_db)
    /\ UNCHANGED <<engine, holder, session, gen, resetPending, ui>>
    /\ UNCHANGED dataVars
    /\ UNCHANGED chunkVars
    /\ UNCHANGED otherVars

CreateVectorstore ==
    /\ holder = "script"
    /\ Len(chroma_db.frags) + Len(documents) <= MaxStore
    /\ \E emb_ok \in BOOLEAN :
         \E r \in {create_vectorstore(engine, chroma_db, documents, emb_ok)} :
             /\ engine' = r.engine
             /\ chroma_db' = r.db
             /\ lastCall' = Call("create_vectorstore", r.outcome, engine, chroma_db)
             /\ resetPending' = (resetPending /\ r.db.frags = <<>>)
    /\ UNCHANGED <<holder, session, gen, ui>>
    /\ UNCHANGED dataVars
    /\ UNCHANGED chunkVars
    /\ UNCHANGED otherVars

LoadExistingVectorstore ==
    /\ holder = "script"
    /\ \E open_ok \in BOOLEAN :
         LET r == load_existing_vectorstore(engine, chroma_db, open_ok)
         IN  /\ engine' = r.engine
             /\ lastCall' = Call("load_existing_vectorstore", r.outcome,
                                 engine, chroma_db)
    /\ UNCHANGED <<chroma_db, holder, session, gen, resetPending, ui>>
    /\ UNCHANGED dataVars
    /\ UNCHANGED chunkVars
    /\ UNCHANGED otherVars

AskQuestion ==
    /\ holder # "none"
    /\ \E question \in Questions, stub \in Stubs :
         LET r == ask_question(engine, chroma_db, question, stub)
             c == IF is_ready(engine) /\ stub.retrieval_ok
                  THEN RetrieveAndFormat(engine, chroma_db, question)
                  ELSE [retrieved |-> <<>>, context |-> ""]
         IN  lastCall' =
                [Call("ask_question", r.outcome, engine, chroma_db)
                    EXCEPT !.text = r.text, !.question = question, !.stub = stub,
                           !.index = Index(engine, chroma_db),
                           !.retrieved = c.retrieved, !.context = c.context]
    /\ UNCHANGED <<chroma_db, engine, holder, session, gen, resetPending, ui>>
    /\ UNCHANGED dataVars
    /\ UNCHANGED chunkVars
    /\ UNCHANGED otherVars

\* Calling ask_question_stream only creates the generator object.
AskQuestionStream ==
    /\ holder # "none"
    /\ \E question \in Questions, stub \in Stubs :
         gen' = [NoGen EXCEPT !.state = "created", !.question = question,
                              !.stub = stub]
    /\ UNCHANGED <<chroma_db, engine, holder, session, lastCall, resetPending, ui>>
    /\ UNCHANGED dataVars
    /\ UNCHANGED chunkVars
    /\ UNCHANGED otherVars

\* The consumer pulls from the generator: the first pull runs the body up
\* to its first yield; a pull with nothing left ends the generator.
StreamNext ==
    /\ gen.state \in {"created", "running"}
    /\ IF gen.state = "created"
       THEN LET r == ask_question_stream(engine, chroma_db, gen.question, gen.stub)
                g == [gen EXCEPT !.index = Index(engine, chroma_db),
                                 !.ready_at_start = is_ready(engine),
                                 !.after_reset = resetPending,
                                 !.reads = r.reads]
            IN  gen' = IF r.outcome = "ValueError"
                       THEN [g EXCEPT !.state = "raised"]
                       ELSE IF r.pending = <<>>
                       THEN [g EXCEPT !.state = "done"]
                       ELSE [g EXCEPT !.state = "running",
                                      !.yielded = <<Head(r.pending)>>,
                                      !.pending = Tail(r.pending)]
       ELSE gen' = IF gen.pending = <<>>
                   THEN [gen EXCEPT !.state = "done"]
                   ELSE [gen EXCEPT !.yielded = Append(@, Head(gen.pending)),
                                    !.pending = Tail(@)]
    /\ UNCHANGED <<chroma_db, engine, holder, session, lastCall, resetPending, ui>>
    /\ UNCHANGED dataVars
    /\ UNCHANGED chunkVars
    /\ UNCHANGED otherVars

\* show_chat_page with no rag_engine in the session: initialize_rag_engine
\* constructs an engine and loads the index; the session keeps the engine,
\* or None when the load returned None.  main() shows the chat page only
\* when the index directory exists.
InitializeRagEngine ==
    /\ session = "absent"
    /\ holder \in {"none", "detached"}
    /\ chroma_db.exists
    /\ \E hub_ok \in BOOLEAN, open_ok \in BOOLEAN :
         LET r == load_existing_vectorstore(BiblicalRAGEngine(hub_ok),
                                            chroma_db, open_ok)
         IN  IF r.outcome = "returned None"
             THEN /\ session' = "None"
                  /\ engine' = NoEngine
                  /\ holder' = "none"
             ELSE /\ session' = "engine"
                  /\ engine' = r.engine
                  /\ holder' = "session"
    /\ ui' = main(chroma_db, "none")
    /\ lastCall' = NoCall
    /\ gen' = NoGen
    /\ UNCHANGED <<chroma_db, resetPending>>
    /\ UNCHANGED dataVars
    /\ UNCHANGED chunkVars
    /\ UNCHANGED otherVars

\* "Re-setup System" on the setup page: safe_cleanup_system, then a rerun
\* when it returned True.  The engine the session held stays reachable to
\* whoever still refers to it (holder "detached").
Reset ==
    /\ holder # "script"
    /\ \E rm \in RmtreeResults :
         LET r == safe_cleanup_system(engine, session, chroma_db, rm)
         IN  /\ engine' = r.engine
             /\ session' = r.session
             /\ chroma_db' = r.db
             /\ resetPending' = (resetPending \/ (r.result /\ ~r.db.exists))
             /\ ui' = [page |-> "setup", clicked |-> "Re-setup System"]
             /\ lastCall' = Call("safe_cleanup_system",
                                 IF r.result THEN "returned True"
                                 ELSE "returned False", NoEngine, AbsentDb)
    /\ holder' = IF holder = "session" THEN "detached" ELSE holder
    /\ UNCHANGED gen
    /\ UNCHANGED dataVars
    /\ UNCHANGED chunkVars
    /\ UNCHANGED otherVars

\* A run of main() with no index directory: the setup page.
ShowSetupPage ==
    /\ check_if_setup_needed(chroma_db)
    /\ ui.page # "setup"
    /\ ui' = main(chroma_db, "none")
    /\ UNCHANGED <<chroma_db, engine, holder, session, lastCall, gen, resetPending>>
    /\ UNCHANGED dataVars
    /\ UNCHANGED chunkVars
    /\ UNCHANGED otherVars

\* "Return to Setup" on the chat page, shown while the session holds no
\* engine: st.rerun(), so main() runs again; the session keeps its
\* rag_engine key, so show_chat_page does not initialize again.
ReturnToSetup ==
    /\ ui.page = "chat"
    /\ session = "None"
    /\ ui' = main(chroma_db, "Return to Setup")
    /\ UNCHANGED <<chroma_db, engine, holder, session, lastCall, gen, resetPending>>
    /\ UNCHANGED dataVars
    /\ UNCHANGED chunkVars
    /\ UNCHANGED otherVars

Next ==
    \/ Construct
    \/ ScriptExit
    \/ RemoveExistingStore
    \/ CreateVectorstore
    \/ LoadExistingVectorstore
    \/ AskQuestion
    \/ AskQuestionStream
    \/ StreamNext
    \/ InitializeRagEngine
    \/ Reset

Spec == Init /\ [][Next]_vars

(***************************************************************************)
(* SpecRetrieve: questions asked of an engine that has loaded an index     *)
(* holding any sequence of at most MaxIndex fragments.                     *)
(***************************************************************************)
MaxIndex == 6        \* most fragments of the index questions are asked of

IndexFragments ==
    {Stored(split_documents(<<Document(v)>>))[1] :
        v \in {VerseDict("Matthew", 1, [verse |-> 1, text |-> VerseText(1)]),
               VerseDict("Malachi", 1, [verse |-> 2, text |-> VerseText(2)]),
               FlattenBooks(create_sample_bible_data.books)[1]}}

InitRetrieve ==
    /\ kjvFile = MissingFile
    /\ pcData = "start"
    /\ dataError = "none"
    /\ verses = <<>>
    /\ documents = <<>>
    /\ loader = "none"
    /\ chunking = NoChunking
    /\ \E n \in 1..MaxIndex : \E frags \in [1..n -> IndexFragments] :
         /\ chroma_db = [exists |-> TRUE, frags |-> frags]
         /\ engine = load_existing_vectorstore(BiblicalRAGEngine(TRUE),
                                               chroma_db, TRUE).engine
    /\ holder = "script"
    /\ session = "absent"
    /\ lastCall = NoCall
    /\ gen = NoGen
    /\ resetPending = FALSE
    /\ ui = NoUi
    /\ chat = NoChat
    /\ download = NoDownload
    /\ cleanup = NoCleanup

NextRetrieve == AskQuestion

SpecRetrieve == InitRetrieve /\ [][NextRetrieve]_vars

(***************************************************************************)
(* SpecChunk: the text splitter on one document.  CHUNK_SIZE and           *)
(* CHUNK_OVERLAP come from the environment (config/settings.py), so the    *)
(* splitter is run with every chunk size up to MaxChunkSize and every      *)
(* smaller overlap, on every text of at most MaxText characters.           *)
(***************************************************************************)
MaxText == 5         \* longest text given to the splitter, in characters

MaxChunkSize == 4    \* largest chunk size the splitter is configured with

ChunkAlphabet == {"a", " ", ".", "\n"}

ChunkTexts == UNION {[1..n -> ChunkAlphabet] : n \in 0..MaxText}

ChunkMetadata ==
    Document(VerseDict("Matthew", 1, [verse |-> 1, text |-> <<>>])).metadata

InitChunk ==
    /\ kjvFile = MissingFile
    /\ pcData = "start"
    /\ dataError = "none"
    /\ verses = <<>>
    /\ documents = <<>>
    /\ loader = "none"
    /\ \E size \in 2..MaxChunkSize, overlap \in 0..MaxChunkSize, text \in ChunkTexts :
         /\ overlap < size
         /\ chunking = [pc |-> "start", chunk_size |-> size,
                        chunk_overlap |-> overlap,
                        doc |-> [page_content |-> text, metadata |-> ChunkMetadata],
                        out |-> <<>>]
    /\ EngineIdle

\* text_splitter.split_documents on the one document.
SplitDocuments ==
    /\ chunking.pc = "start"
    /\ chunking' = [chunking EXCEPT
                       !.pc = "done",
                       !.out = TextSplitter(<<chunking.doc>>, chunking.chunk_size,
                                            chunking.chunk_overlap)]
    /\ UNCHANGED dataVars
    /\ UNCHANGED engineVars
    /\ UNCHANGED otherVars

NextChunk == SplitDocuments

SpecChunk == InitChunk /\ [][NextChunk]_vars

(***************************************************************************)
(* SpecChat: the chat page in two browser sessions over the same index.    *)
(* Each session holds an engine of its own that loaded the index; the      *)
(* engines are equal, so one engine value stands for both.                 *)
(***************************************************************************)
MaxTurns == 4        \* most turns a conversation list holds

\* The remote services in a chat: the reply completes, or fails after its
\* first increment.
ChatStubs == {stub \in Stubs : stub.retrieval_ok /\ stub.fail_after \in {-1, 1}}

InitChat ==
    /\ kjvFile = MissingFile
    /\ pcData = "start"
    /\ dataError = "none"
    /\ verses = <<>>
    /\ documents = <<>>
    /\ loader = "none"
    /\ chunking = NoChunking
    /\ \E frags \in [1..1 -> IndexFragments] :
         /\ chroma_db = [exists |-> TRUE, frags |-> frags]
         /\ engine = load_existing_vectorstore(BiblicalRAGEngine(TRUE),
                                               chroma_db, TRUE).engine
    /\ holder = "session"
    /\ session = "engine"
    /\ lastCall = NoCall
    /\ gen = NoGen
    /\ resetPending = FALSE
    /\ ui = main(chroma_db, "none")
    /\ chat = NoChat
    /\ download = NoDownload
    /\ cleanup = NoCleanup

\* The chat interface is shown while the session holds a ready engine.
ChatShown == ui.page = "chat" /\ session = "engine" /\ is_ready(engine)

\* A starter question is clicked; the starter questions are shown while the
\* list is empty.
ClickStarterQuestion ==
    /\ ChatShown
    /\ \E s \in Sessions, i \in 1..Len(example_questions) :
         /\ chat[s].messages = <<>>
         /\ chat[s].generate_response = "absent"
         /\ chat' = [chat EXCEPT ![s] = StarterQuestionClick(@, example_questions[i])]
    /\ UNCHANGED dataVars
    /\ UNCHANGED engineVars
    /\ UNCHANGED chunkVars
    /\ UNCHANGED <<download, cleanup>>

\* The rerun after a starter question.
RunGenerateResponse ==
    /\ ChatShown
    /\ \E s \in Sessions, stub \in ChatStubs :
         /\ chat[s].generate_response # "absent"
         /\ chat' = [chat EXCEPT ![s] = GenerateResponse(@, engine, chroma_db, stub)]
    /\ UNCHANGED dataVars
    /\ UNCHANGED engineVars
    /\ UNCHANGED chunkVars
    /\ UNCHANGED <<download, cleanup>>

\* A question is typed into the chat input.
TypeQuestion ==
    /\ ChatShown
    /\ \E s \in Sessions, prompt \in Questions, stub \in ChatStubs :
         /\ Len(chat[s].messages) + 2 <= MaxTurns
         /\ chat' = [chat EXCEPT ![s] = ChatInput(@, prompt, engine, chroma_db, stub)]
    /\ UNCHANGED dataVars
    /\ UNCHANGED engineVars
    /\ UNCHANGED chunkVars
    /\ UNCHANGED <<download, cleanup>>

\* "Clear Conversation" in the sidebar, shown while the session holds an
\* engine.
ClickClearConversation ==
    /\ ui.page = "chat"
    /\ session = "engine"
    /\ \E s \in Sessions :
         /\ chat[s].run # "none"
         /\ chat' = [chat EXCEPT ![s] = ClearConversation(@)]
    /\ UNCHANGED dataVars
    /\ UNCHANGED engineVars
    /\ UNCHANGED chunkVars
    /\ UNCHANGED <<download, cleanup>>

NextChat ==
    \/ ClickStarterQuestion
    \/ RunGenerateResponse
    \/ TypeQuestion
    \/ ClickClearConversation

SpecChat == InitChat /\ [][NextChat]_vars

(***************************************************************************)
(* SpecDownload: runs of the setup script that downloads the corpus, with  *)
(* every body of at most MaxBody tokens and every course of the transfer.  *)
(***************************************************************************)
MaxBody == 4         \* longest body the remote serves, in tokens

DownloadBodies ==
    {toks \in UNION {[1..n -> Tokens] : n \in 0..MaxBody} : WellFormed(toks)}

InitDownload ==
    /\ kjvFile = MissingFile
    /\ pcData = "start"
    /\ dataError = "none"
    /\ verses = <<>>
    /\ documents = <<>>
    /\ loader = "none"
    /\ chunking = NoChunking
    /\ EngineIdle

\* What the remote can serve in a run: nothing is requested while a file is
\* at the path.
BodiesFor(file) == IF file.exists THEN {<<>>} ELSE DownloadBodies

TransfersFor(file, body) ==
    IF file.exists THEN {[kind |-> "complete", written |-> 0]}
    ELSE Transfers(Len(body))

\* One run of data/download_and_setup.py.
SetupBibleDataWithDownload ==
    /\ \E body \in BodiesFor(kjvFile) : \E net \in TransfersFor(kjvFile, body) :
         LET r == setup_bible_data_with_download(kjvFile, body, net)
         IN  /\ kjvFile' = r.file
             /\ download' = [result |-> IF ~r.called THEN "not called"
                                        ELSE IF r.download.result THEN "True"
                                        ELSE "False",
                             cause  |-> r.download.cause]
             /\ dataError' = r.raised
             /\ verses' = r.verses
             /\ documents' = r.documents
             /\ pcData' = IF r.raised = "none" THEN "built" ELSE "failed"
    /\ loader' = "load_bible_data"
    /\ UNCHANGED engineVars
    /\ UNCHANGED chunkVars
    /\ UNCHANGED <<chat, cleanup>>

NextDownload == SetupBibleDataWithDownload

SpecDownload == InitDownload /\ [][NextDownload]_vars

(***************************************************************************)
(* SpecCleanup: safe_cleanup_system, attempt by attempt, on a session that *)
(* holds an engine or none, with every course of the deletion.             *)
(***************************************************************************)
InitCleanup ==
    /\ kjvFile = MissingFile
    /\ pcData = "start"
    /\ dataError = "none"
    /\ verses = <<>>
    /\ documents = <<>>
    /\ loader = "none"
    /\ chunking = NoChunking
    /\ \E n \in 0..2 : \E frags \in [1..n -> IndexFragments] :
         /\ chroma_db \in {[exists |-> TRUE, frags |-> frags], AbsentDb}
         /\ \E r \in {load_existing_vectorstore(BiblicalRAGEngine(TRUE),
                                                chroma_db, TRUE)} :
              IF r.outcome = "returned None"
              THEN /\ session \in {"absent", "None"}
                   /\ engine = NoEngine
                   /\ holder = "none"
              ELSE /\ session = "engine"
                   /\ engine = r.engine
                   /\ holder = "session"
    /\ lastCall = NoCall
    /\ gen = NoGen
    /\ resetPending = FALSE
    /\ ui = NoUi
    /\ chat = NoChat
    /\ download = NoDownload
    /\ cleanup = NoCleanup

\* One run of safe_cleanup_system.
SafeCleanupSystem ==
    /\ \E fs \in Deletions :
         LET d == DeleteIndexDirectory(chroma_db, fs)
             r == safe_cleanup_system(engine, session, chroma_db, d.how)
         IN  /\ engine' = r.engine
             /\ session' = r.session
             /\ chroma_db' = r.db
             /\ cleanup' = [result   |-> IF r.result THEN "returned True"
                                         ELSE "returned False",
                            attempts |-> d.calls,
                            how      |-> d.how,
                            platform |-> fs.platform]
    /\ holder' = IF holder = "session" THEN "detached" ELSE holder
    /\ UNCHANGED <<lastCall, gen, resetPending, ui>>
    /\ UNCHANGED dataVars
    /\ UNCHANGED chunkVars
    /\ UNCHANGED <<chat, download>>

NextCleanup == SafeCleanupSystem

SpecCleanup == InitCleanup /\ [][NextCleanup]_vars

(***************************************************************************)
(* SpecApp: the pages of the app (main, show_setup_page, show_chat_page)   *)
(* over an index that scripts build and remove.                            *)
(***************************************************************************)
NextApp ==
    \/ Construct
    \/ ScriptExit
    \/ RemoveExistingStore
    \/ CreateVectorstore
    \/ LoadExistingVectorstore
    \/ InitializeRagEngine
    \/ Reset
    \/ ShowSetupPage
    \/ ReturnToSetup

SpecApp == Init /\ [][NextApp]_vars

(***************************************************************************)
(* Properties of the data pipeline (checked under SpecData).               *)
(***************************************************************************)
RECURSIVE SumSeq(_)
SumSeq(ns) == IF ns = <<>> THEN 0 ELSE Head(ns) + SumSeq(Tail(ns))

SourceBooks == JsonLoad(kjvFile.tokens).books

ChapterSizes(book) ==
    [c \in 1..Len(book.chapters) |-> Len(book.chapters[c].verses)]

BookSizes(books) == [b \in 1..Len(books) |-> SumSeq(ChapterSizes(books[b]))]

\* Where verse v of chapter c of book b stands in source order.
SourcePosition(books, b, c, v) ==
    SumSeq(SubSeq(BookSizes(books), 1, b - 1))
        + SumSeq(SubSeq(ChapterSizes(books[b]), 1, c - 1)) + v

\* C1: load_kjv_data returns one record per verse of the source, in source
\* order; its length is the sum of the verse counts of all chapters of all
\* books.
C1_FlatInSourceOrder ==
    (pcData \in {"loaded", "built"} /\ kjvFile.exists) =>
        /\ Len(verses) = SumSeq(BookSizes(SourceBooks))
        /\ \A b \in 1..Len(SourceBooks) :
             \A c \in 1..Len(SourceBooks[b].chapters) :
               \A v \in 1..Len(SourceBooks[b].chapters[c].verses) :
                 verses[SourcePosition(SourceBooks, b, c, v)] =
                    [book        |-> SourceBooks[b].name,
                     chapter     |-> SourceBooks[b].chapters[c].chapter,
                     verse       |-> SourceBooks[b].chapters[c].verses[v].verse,
                     text        |-> SourceBooks[b].chapters[c].verses[v].text,
                     translation |-> "KJV"]

\* Two books out of canonical order, each with one verse, the verse numbers
\* descending: any re-sorting would show.
C1_Witness ==
    /\ pcData = "loaded"
    /\ Len(verses) = 2
    /\ verses[1].book = "Matthew" /\ verses[1].verse = 2
    /\ verses[2].book = "Malachi" /\ verses[2].verse = 1

\* C2: create_documents_from_bible_data returns exactly one document per
\* verse record, the i-th derived from the i-th record.
C2_OneDocumentPerRecord ==
    pcData = "built" =>
        /\ Len(documents) = Len(verses)
        /\ \A i \in 1..Len(verses) : documents[i] = Document(verses[i])

\* The verse record document i was built from.
SourceRecord(i) == verses[((i - 1) % Len(verses)) + 1]

\* C3: every built document has reference "<book> <chapter>:<verse>" and
\* testament "Old" iff its book is one of the 39 Old Testament names.
C3_ReferenceAndTestament ==
    pcData = "built" =>
        /\ Cardinality(old_testament_books) = 39
        /\ \A i \in 1..Len(documents) :
             LET v == SourceRecord(i)
                 m == documents[i].metadata
             IN  /\ m.reference = v.book \o " " \o ToString(v.chapter)
                                     \o ":" \o ToString(v.verse)
                 /\ m.testament \in {"Old", "New"}
                 /\ m.testament = "Old" <=> v.book \in old_testament_books

C3_Witness ==
    /\ pcData = "built"
    /\ \E i \in 1..Len(documents) :
         /\ documents[i].metadata.testament = "Old"
         /\ documents[i].metadata.reference = "Malachi 1:2"
    /\ \E i \in 1..Len(documents) : documents[i].metadata.testament = "New"

\* C4: the 66 canonical names map to distinct numbers in 1..66; any other
\* name gets book_number 0 and testament "New", and building does not fail.
C4_BookNumberLookup ==
    pcData = "built" =>
        /\ Cardinality(DOMAIN book_numbers) = 66
        /\ {book_numbers[n] : n \in DOMAIN book_numbers} = 1..66
        /\ Len(documents) >= Len(verses)
        /\ \A i \in 1..Len(documents) :
             LET m == documents[i].metadata
             IN  IF SourceRecord(i).book \in DOMAIN book_numbers
                 THEN m.book_number \in 1..66
                 ELSE m.book_number = 0 /\ m.testament = "New"

C4_Witness ==
    /\ pcData = "built"
    /\ \E i \in 1..Len(documents) :
         /\ documents[i].metadata.book = "Psalm"
         /\ documents[i].metadata.book_number = 0
    /\ \E i \in 1..Len(documents) : documents[i].metadata.book_number = 40

(***************************************************************************)
(* Properties of the engine (checked under Spec).                          *)
(***************************************************************************)
\* C5: create_vectorstore on an empty document list fails and changes
\* nothing: no store appears at the index path, and the engine's
\* vectorstore, retriever and rag_chain are as before.
C5_EmptyBuildFails ==
    (lastCall.op = "create_vectorstore" /\ documents = <<>>) =>
        /\ lastCall.outcome = "ValueError"
        /\ chroma_db = lastCall.pre_db
        /\ engine = lastCall.pre_engine
        /\ ~is_ready(lastCall.pre_engine) => ~is_ready(engine)

C5_Witness ==
    /\ lastCall.op = "create_vectorstore"
    /\ documents = <<>>
    /\ lastCall.outcome = "ValueError"
    /\ ~chroma_db.exists
    /\ ~is_ready(engine)

\* C6: load_existing_vectorstore always returns: None when the index
\* directory is missing, None when the store is empty, and the store, with
\* the engine made ready, only when the store holds a fragment.
C6_LoadNeverRaises ==
    lastCall.op = "load_existing_vectorstore" =>
        /\ lastCall.outcome \in {"returned None", "returned store"}
        /\ ~lastCall.pre_db.exists => lastCall.outcome = "returned None"
        /\ (lastCall.pre_db.exists /\ lastCall.pre_db.frags = <<>>)
              => lastCall.outcome = "returned None"
        /\ lastCall.outcome = "returned store"
              => /\ lastCall.pre_db.exists
                 /\ Len(lastCall.pre_db.frags) >= 1
                 /\ is_ready(engine)
        /\ (is_ready(engine) /\ ~is_ready(lastCall.pre_engine))
              => lastCall.outcome = "returned store"

C6_Witness ==
    /\ lastCall.op = "load_existing_vectorstore"
    /\ lastCall.pre_db.exists
    /\ lastCall.pre_db.frags = <<>>
    /\ lastCall.outcome = "returned None"
    /\ ~is_ready(engine)

C8_UninitializedRaises ==
    /\ (lastCall.op = "ask_question" /\ ~is_ready(lastCall.pre_engine)) =>
          lastCall.outcome = "ValueError" /\ lastCall.text = ""
    /\ (gen.state \in {"running", "done", "raised"} /\ ~gen.ready_at_start) =>
          gen.state = "raised" /\ gen.yielded = <<>>

C8_Witness ==
    /\ lastCall.op = "ask_question"
    /\ ~is_ready(lastCall.pre_engine)
    /\ lastCall.outcome = "ValueError"
    /\ gen.state = "raised"
    /\ ~gen.ready_at_start
    /\ ~resetPending

\* C9: on a ready engine ask_question always returns; a failure of the
\* retrieval or of the model comes back as "Error generating response:
\* <message>", and the engine is as ready as before.
C9_ErrorsInBand ==
    (lastCall.op = "ask_question" /\ is_ready(lastCall.pre_engine)) =>
        /\ lastCall.outcome = "returned"
        /\ ~lastCall.stub.retrieval_ok =>
              lastCall.text = ErrorPrefix \o RetrievalMessage
        /\ (lastCall.stub.retrieval_ok /\ lastCall.stub.fail_after # -1) =>
              lastCall.text = ErrorPrefix \o ModelMessage
        /\ engine = lastCall.pre_engine
        /\ is_ready(engine)

C9_Witness ==
    /\ lastCall.op = "ask_question"
    /\ is_ready(lastCall.pre_engine)
    /\ lastCall.stub.retrieval_ok
    /\ lastCall.stub.fail_after = 1
    /\ lastCall.text = "Error generating response: model failed"

\* A finished stream and a whole response for the same question, the same
\* stub and the same index.
SameQuery ==
    /\ gen.state = "done"
    /\ lastCall.op = "ask_question"
    /\ lastCall.outcome = "returned"
    /\ gen.question = lastCall.question
    /\ gen.stub = lastCall.stub
    /\ gen.index = lastCall.index

\* C10 as claimed: for the same question, index and stub (a stub failing
\* part-way included) the increments of ask_question_stream concatenate to
\* the string ask_question returns.
C10_StreamEqualsWhole ==
    SameQuery => Concat(gen.yielded) = lastCall.text

\* C10 as amended: the increments concatenate to the string ask_question
\* returns when the stub completes or fails before its first increment;
\* when it fails after n >= 1 increments the stream yields those n
\* increments and then, as its last increment, the string ask_question
\* returns.
C10_StreamEqualsWholeUnlessPartial ==
    SameQuery =>
        IF lastCall.stub.retrieval_ok /\ lastCall.stub.fail_after >= 1
        THEN /\ Len(gen.yielded) = lastCall.stub.fail_after + 1
             /\ gen.yielded[Len(gen.yielded)] = lastCall.text
             /\ SubSeq(gen.yielded, 1, lastCall.stub.fail_after) =
                   SubSeq(ReplyIncrements(
                              format_docs(Retrieve(gen.index, gen.question)),
                              gen.question),
                          1, lastCall.stub.fail_after)
        ELSE Concat(gen.yielded) = lastCall.text

C10_Witness ==
    /\ SameQuery
    /\ lastCall.stub.retrieval_ok
    /\ lastCall.stub.fail_after = -1
    /\ Len(gen.yielded) = 2
    /\ Len(gen.index) = 4
    /\ Concat(gen.yielded) = lastCall.text

(***************************************************************************)
(* Properties of retrieval and of the context block.                       *)
(***************************************************************************)
Entry(doc) == "[" \o doc.metadata.reference \o "] " \o doc.page_content

\* The entries of the fragments, each after the first behind a blank line.
RECURSIVE ContextOf(_)
ContextOf(docs) ==
    IF docs = <<>> THEN ""
    ELSE IF Len(docs) = 1 THEN Entry(docs[1])
    ELSE ContextOf(SubSeq(docs, 1, Len(docs) - 1)) \o "\n\n"
            \o Entry(docs[Len(docs)])

Retrieved ==
    /\ lastCall.op = "ask_question"
    /\ is_ready(lastCall.pre_engine)
    /\ lastCall.stub.retrieval_ok

\* C11: the context block has one entry "[<reference>] <content>" for each
\* retrieved fragment, in the order retrieved, joined by a blank line:
\* k retrieved fragments give k entries, equal fragments included.
C11_ContextBlock ==
    Retrieved =>
        /\ lastCall.context = ContextOf(lastCall.retrieved)
        /\ lastCall.retrieved # <<>> =>
              Len(lastCall.context)
                 = SumSeq([i \in 1..Len(lastCall.retrieved) |->
                             Len(Entry(lastCall.retrieved[i]))])
                   + 2 * (Len(lastCall.retrieved) - 1)

C11_Witness ==
    /\ Retrieved
    /\ Len(lastCall.retrieved) = 4
    /\ lastCall.retrieved[1] = lastCall.retrieved[2]
    /\ lastCall.retrieved[2] # lastCall.retrieved[3]
    /\ lastCall.text = lastCall.context \o " Q: " \o lastCall.question

\* C12: with no corpus file, the index built once from the documents of
\* load_bible_data's corpus answers "What does the Bible say about
\* creation?" from a context block that is the single entry of Genesis 1:1.
C12_SingleVerseContext ==
    (/\ Retrieved
     /\ ~kjvFile.exists
     /\ lastCall.index = Stored(split_documents(documents))
     /\ lastCall.question = "What does the Bible say about creation?")
        => lastCall.context
              = "[Genesis 1:1] In the beginning God created the heaven and the earth."

Count(bag, x) == Cardinality({i \in 1..Len(bag) : bag[i] = x})

CountOnDisk(db) == Len(db.frags)

\* The build a caller reaches: main.py builds after load_existing_vectorstore
\* returned None, the setup scripts after removing the directory or when
\* there is none.
CallerBuilds ==
    /\ lastCall'.op = "create_vectorstore"
    /\ lastCall'.outcome = "returned"
    /\ \/ lastCall.op = "load_existing_vectorstore"
             /\ lastCall.outcome = "returned None"
       \/ lastCall.op = "rmtree"
       \/ lastCall = NoCall /\ ~chroma_db.exists

\* C13: after a caller's build succeeds, the store reopened at the location
\* counts exactly the fragments that were passed to the build, also when
\* the location held a store before.
C13_CountMatchesBuild ==
    [][CallerBuilds =>
          CountOnDisk(chroma_db') = Len(split_documents(documents))]_vars

IsPrefix(s, t) == Len(s) <= Len(t) /\ SubSeq(t, 1, Len(s)) = s

\* The store keeps what it holds: its fragments stay, in place, and the
\* directory stays.
StoreGrows ==
    /\ IsPrefix(chroma_db.frags, chroma_db'.frags)
    /\ chroma_db.exists => chroma_db'.exists

\* C19 (as stated): every step leaves the fragments of the persisted index
\* in place, except that the user-triggered reset deletes the whole store;
\* nothing else deletes it and nothing removes a part of it.
C19_OnlyResetDeletes ==
    [][StoreGrows
         \/ (chroma_db' = AbsentDb /\ lastCall'.op = "safe_cleanup_system")]_vars

\* C19 (amended): every step leaves the fragments of the persisted index in
\* place, except that the user-triggered reset and the setup scripts (which
\* remove an existing store before they build) delete the whole store;
\* nothing removes a part of it.
C19_OnlyWholeStoreDeletion ==
    [][StoreGrows
         \/ (chroma_db' = AbsentDb
               /\ lastCall'.op \in {"safe_cleanup_system", "rmtree"})]_vars

C19_Witness ==
    /\ lastCall.op = "rmtree"
    /\ Len(lastCall.pre_db.frags) >= 2
    /\ chroma_db = AbsentDb

\* C20: "Return to Setup", clicked on the chat page while the index
\* directory exists and holds no fragment, shows the setup page.
C20_EmptyIndexRoutesToSetup ==
    [][(/\ ui.clicked # "Return to Setup"
        /\ ui'.clicked = "Return to Setup"
        /\ IndexState(chroma_db) = "empty")
          => ui'.page = "setup"]_vars

\* C15: with no corpus file, load_kjv_data raises FileNotFoundError and
\* load_bible_data returns the one-verse placeholder corpus (Genesis 1:1);
\* with a file that is not valid JSON, the decoder's error comes out of
\* load_bible_data and nothing is returned in its place.
C15_FallbackOnlyWhenMissing ==
    /\ (loader = "load_kjv_data" /\ ~kjvFile.exists) =>
            pcData = "failed" /\ dataError = "FileNotFoundError"
    /\ (loader = "load_bible_data" /\ ~kjvFile.exists) =>
            /\ dataError = "none"
            /\ Len(verses) = 1
            /\ verses[1].book = "Genesis"
            /\ verses[1].chapter = 1
            /\ verses[1].verse = 1
            /\ Concat(verses[1].text)
                  = "In the beginning God created the heaven and the earth."
    /\ (loader = "load_bible_data" /\ kjvFile.exists /\ kjvFile.truncated) =>
            /\ pcData = "failed"
            /\ dataError = "JSONDecodeError"
            /\ verses = <<>>
            /\ documents = <<>>

C15_Witness ==
    /\ loader = "load_bible_data"
    /\ kjvFile.exists
    /\ kjvFile.truncated
    /\ kjvFile.tokens # <<>>
    /\ pcData = "failed"

(***************************************************************************)
(* Properties of the text splitter (checked under SpecChunk).              *)
(***************************************************************************)
FragmentContents ==
    [i \in 1..Len(chunking.out) |-> chunking.out[i].page_content]

\* C16 (as stated): the metadata of every fragment is identical to the
\* metadata of the document it was cut from; no key is added, removed or
\* changed.
C16_MetadataIdentical ==
    chunking.pc = "done" =>
        \A i \in 1..Len(chunking.out) :
            chunking.out[i].metadata = chunking.doc.metadata

\* C16 (amended): every fragment carries every key of its document's
\* metadata with the document's value, and exactly one more key,
\* start_index.
C16_MetadataKeptPlusStartIndex ==
    chunking.pc = "done" =>
        \A i \in 1..Len(chunking.out) :
            /\ DOMAIN chunking.out[i].metadata
                  = DOMAIN chunking.doc.metadata \cup {"start_index"}
            /\ "start_index" \notin DOMAIN chunking.doc.metadata
            /\ \A key \in DOMAIN chunking.doc.metadata :
                  chunking.out[i].metadata[key] = chunking.doc.metadata[key]

C16_Witness ==
    /\ chunking.pc = "done"
    /\ Len(chunking.out) >= 2
    /\ chunking.out[2].metadata.reference = chunking.doc.metadata.reference

\* C17 (as stated): a text shorter than the chunk size gives exactly one
\* fragment, whose content is the text itself, also when the text begins or
\* ends with whitespace.
C17_ShortTextOneFragment ==
    (chunking.pc = "done"
       /\ TextLen(chunking.doc.page_content) < chunking.chunk_size)
        => /\ Len(chunking.out) = 1
           /\ chunking.out[1].page_content = chunking.doc.page_content

\* C17 (amended): a text shorter than the chunk size gives exactly one
\* fragment, whose content is the text without its leading and trailing
\* whitespace; an empty or all-whitespace text gives no fragment.
C17_ShortTextStripped ==
    (chunking.pc = "done"
       /\ TextLen(chunking.doc.page_content) < chunking.chunk_size)
        => IF Strip(chunking.doc.page_content) = <<>>
           THEN chunking.out = <<>>
           ELSE /\ Len(chunking.out) = 1
                /\ chunking.out[1].page_content = Strip(chunking.doc.page_content)

C17_Witness ==
    /\ chunking.pc = "done"
    /\ TextLen(chunking.doc.page_content) < chunking.chunk_size
    /\ Len(chunking.doc.page_content) = 3
    /\ chunking.doc.page_content[1] \in Whitespace
    /\ chunking.doc.page_content[3] \in Whitespace
    /\ Len(chunking.out) = 1
    /\ TextLen(chunking.out[1].page_content) = 1

\* The fragments concatenated, each after the first without its first
\* overlap characters.
RECURSIVE Reconstruct(_, _)
Reconstruct(frags, overlap) ==
    IF frags = <<>> THEN <<>>
    ELSE IF Len(frags) = 1 THEN frags[1]
    ELSE frags[1] \o Reconstruct(<<SubSeq(frags[2], overlap + 1, Len(frags[2]))>>
                                     \o SubSeq(frags, 3, Len(frags)), overlap)

\* C18 (as stated): concatenating the fragments of a text, dropping the
\* first chunk_overlap characters of every fragment after the first, gives
\* back the text exactly.
C18_RoundTripExact ==
    chunking.pc = "done" =>
        Reconstruct(FragmentContents, chunking.chunk_overlap)
            = chunking.doc.page_content

\* The fragments lie in the text in order: each is a contiguous part of the
\* text starting at or after the start of the one before it, it repeats at
\* most overlap characters of what came before, and every character of the
\* text that no fragment holds is whitespace.  from: start of the previous
\* fragment; upto: end of the part of the text covered so far.
RECURSIVE Covers(_, _, _, _, _)
Covers(text, frags, from, upto, overlap) ==
    IF frags = <<>> THEN \A q \in (upto + 1)..Len(text) : text[q] \in Whitespace
    ELSE \E p \in from..(Len(text) - Len(Head(frags))) :
            /\ SubSeq(text, p + 1, p + Len(Head(frags))) = Head(frags)
            /\ \A q \in (upto + 1)..p : text[q] \in Whitespace
            /\ upto - p <= overlap
            /\ Covers(text, Tail(frags), p,
                      IF upto > p + Len(Head(frags)) THEN upto
                      ELSE p + Len(Head(frags)), overlap)

\* C18 (amended): the fragments are contiguous parts of the text, in text
\* order, consecutive ones sharing at most chunk_overlap characters, and
\* they hold every character of the text except whitespace at their ends.
C18_FragmentsCoverText ==
    chunking.pc = "done" =>
        Covers(chunking.doc.page_content, FragmentContents, 0, 0,
               chunking.chunk_overlap)

C18_Witness ==
    /\ chunking.pc = "done"
    /\ chunking.chunk_overlap > 0
    /\ Len(chunking.out) >= 3
    /\ Reconstruct(FragmentContents, chunking.chunk_overlap)
          # chunking.doc.page_content

(***************************************************************************)
(* Properties of the streamed answer.                                      *)
(***************************************************************************)
\* What the remote call of the generator delivers before it ends: the
\* increments of the reply, up to the point where the stub fails.
RemoteIncrements ==
    LET reply == ReplyIncrements(format_docs(Retrieve(gen.index, gen.question)),
                                 gen.question)
    IN  IF ~gen.stub.retrieval_ok THEN <<>>
        ELSE IF gen.stub.fail_after # -1 THEN SubSeq(reply, 1, gen.stub.fail_after)
        ELSE reply

RemoteFails == ~gen.stub.retrieval_ok \/ gen.stub.fail_after # -1

\* The pulls the generator can still serve, plus one for the pull that ends it.
Remaining(g) ==
    IF g.state = "created" THEN Len(ReplyIncrements("", g.question)) + 3
    ELSE IF g.state = "running" THEN Len(g.pending) + 1
    ELSE 0

\* What a started generator has yielded and will yield is the increments of
\* one remote call in the order received, followed by one error string
\* exactly when the remote call failed; a finished generator has nothing left.
StreamOfOneRead ==
    gen.state \in {"running", "done"} =>
        LET all == gen.yielded \o gen.pending
            n   == Len(RemoteIncrements)
        IN  /\ gen.reads = 1
            /\ SubSeq(all, 1, Min(n, Len(all))) = RemoteIncrements
            /\ Len(all) = IF RemoteFails THEN n + 1 ELSE n
            /\ RemoteFails =>
                  SubSeq(all[n + 1], 1, Len(ErrorPrefix)) = ErrorPrefix
            /\ gen.state = "done" => gen.pending = <<>>

\* A pull hands over the next increment or ends the generator: every pull
\* lowers the number of pulls that remain, and what was yielded stays.
PullProgress ==
    (gen' # gen /\ gen'.state \notin {"none", "created"}) =>
        /\ Remaining(gen') < Remaining(gen)
        /\ IsPrefix(gen.yielded, gen'.yielded)
        /\ Len(gen'.yielded) <= Len(gen.yielded) + 1
        /\ gen'.reads <= 1

\* C21: ask_question_stream yields the increments of the remote call in the
\* order received, starts the remote call at most once, and ends after
\* finitely many pulls; when the remote call fails it yields exactly one
\* error string, as its last increment.
C21_StreamOrderedFiniteOneRead ==
    []StreamOfOneRead /\ [][PullProgress]_vars

\* The remote call failed after one increment: the stream ended with that
\* increment and the error string.
C21_Witness ==
    /\ gen.state = "done"
    /\ gen.stub.retrieval_ok
    /\ gen.stub.fail_after = 1
    /\ gen.reads = 1
    /\ Len(gen.yielded) = 2
    /\ gen.yielded[2] = ErrorPrefix \o ModelMessage

(***************************************************************************)
(* Properties of the engine's readiness.                                   *)
(***************************************************************************)
\* The last call was a build that embedded its fragments, or a load that
\* opened a store holding fragments.
BuiltOrLoadedValidStore ==
    \/ /\ lastCall.op = "create_vectorstore"
       /\ lastCall.outcome \notin {"ValueError", "ProviderError"}
       /\ chroma_db.frags # <<>>
    \/ /\ lastCall.op = "load_existing_vectorstore"
       /\ lastCall.pre_db.exists
       /\ lastCall.pre_db.frags # <<>>
       /\ engine.vectorstore = "Chroma"

\* C24: an engine constructed while the prompt could not be pulled from the
\* hub is ready after create_vectorstore or load_existing_vectorstore on a
\* valid store that holds fragments.
C24_ReadyWithoutHubPrompt ==
    (holder = "script" /\ ~lastCall.pre_engine.prompt /\ BuiltOrLoadedValidStore)
        => is_ready(engine)

\* Reading the count of the collection succeeds while the index directory
\* exists; once it is gone the read succeeds or raises.
CountOutcomes == IF chroma_db.exists THEN {TRUE} ELSE BOOLEAN

\* C25: in every reachable state of an engine, get_stats reports the status
\* "Ready" exactly when is_ready() is true.
C25_StatsReadyIffReady ==
    holder # "none" =>
        \A count_ok \in CountOutcomes :
            (get_stats(engine, chroma_db, count_ok).status = "Ready")
                <=> is_ready(engine)

(***************************************************************************)
(* Properties of the chat page.                                            *)
(***************************************************************************)
\* The session has had a question answered.
Answered(s) == chat[s].run \in {"generated answer", "typed question"}

\* C22: the engine is passed the latest question and nothing of the
\* conversation: two sessions over the same index whose latest question and
\* stub are the same pass the same input and get the same answer, whatever
\* their lists hold.
C22_OnlyLatestQuestion ==
    \A s \in Sessions, t \in Sessions :
        /\ Answered(s) => chat[s].input = chat[s].question
        /\ (Answered(s) /\ Answered(t) /\ chat[s].question = chat[t].question
                /\ chat[s].stub = chat[t].stub)
              => /\ chat[s].input = chat[t].input
                 /\ chat[s].response = chat[t].response

\* Two sessions with lists of different length asked the same question and
\* got the same answer.
C22_Witness ==
    /\ Answered(1) /\ Answered(2)
    /\ Len(chat[1].messages) = 2
    /\ Len(chat[2].messages) = 4
    /\ chat[1].messages[1].content # chat[2].messages[1].content
    /\ chat[1].question = chat[2].question
    /\ chat[1].stub = chat[2].stub
    /\ chat[1].messages[2].content = chat[1].response
    /\ chat[2].messages[4].content = chat[2].response
    /\ chat[1].response = chat[2].response

\* The turns a step added to a list, given that the old list is a prefix.
Added(old, new) == SubSeq(new, Len(old) + 1, Len(new))

\* What a step may do to the list of a session: leave it, add turns at its
\* end (a question, an answer, or a typed question followed by its answer),
\* or, for "Clear Conversation" alone, empty it together with the pending
\* generate_response.
ListStep(a, b) ==
    \/ b.messages = a.messages
    \/ /\ b.run \in {"starter question", "generated answer", "typed question"}
       /\ IsPrefix(a.messages, b.messages)
       /\ LET roles == [i \in 1..Len(Added(a.messages, b.messages)) |->
                           Added(a.messages, b.messages)[i].role]
          IN  roles = CASE b.run = "starter question" -> <<"user">>
                        [] b.run = "generated answer" -> <<"assistant">>
                        [] b.run = "typed question"   -> <<"user", "assistant">>
    \/ /\ b.run = "clear conversation"
       /\ b.messages = <<>>
       /\ b.generate_response = "absent"

\* C23: the conversation list is append-only: every chat action adds its
\* turn at the end and leaves the earlier turns as they were; only "Clear
\* Conversation" removes turns, all of them, and with them the pending
\* generate_response.
C23_AppendOnlyUntilClear ==
    [][\A s \in Sessions :
          /\ ListStep(chat[s], chat'[s])
          /\ (chat'[s] # chat[s] /\ chat'[s].run = "clear conversation") =>
                chat'[s].messages = <<>> /\ chat'[s].generate_response = "absent"]_vars

\* A list of two turns was extended by a typed question and its answer, and
\* the other session cleared its list while a starter question was pending.
C23_Witness ==
    /\ chat[1].run = "typed question"
    /\ Len(chat[1].messages) = 4
    /\ chat[1].messages[1].content = example_questions[2]
    /\ chat[2].run = "clear conversation"
    /\ chat[2].question = example_questions[1]
    /\ chat[2].input = ""
    /\ chat[2].messages = <<>>

(***************************************************************************)
(* Properties of the download.                                             *)
(***************************************************************************)
\* C26: whenever download_kjv_bible returned False, no file is left at the
\* path of the corpus, so that the next run of the setup downloads again.
C26_NoFileAfterFailedDownload ==
    download.result = "False" => ~kjvFile.exists

(***************************************************************************)
(* Properties of the cleanup.                                              *)
(***************************************************************************)
\* C27: safe_cleanup_system ends after at most three rmtree attempts on the
\* index directory, whatever the attempts raise, and when it returns True
\* the index directory is no longer at its path.
C27_ThreeAttemptsAndGoneWhenTrue ==
    cleanup.result # "none" =>
        /\ cleanup.attempts <= RmtreeAttempts
        /\ cleanup.result = "returned True" => ~chroma_db.exists

====
